---- MODULE Spec2Model ----
(***************************************************************************)
(* RFBucket (trackers/rf_bucket.py): the lazily cached geometry of an RF   *)
(* bucket and its Hamiltonian, modelled on an integer grid.                *)
(*                                                                         *)
(* Units.  np.pi is rounded to 3 and angles are carried in half radians,   *)
(* so that a turn of 2*pi is 12 angle units: np.sin and np.cos are         *)
(* tabulated at these 12 angles, scaled by 4 and rounded.  The             *)
(* circumference is 12 grid cells of z, hence R = circumference/(2*pi) = 2 *)
(* cells per radian and one cell is one angle unit of the harmonic h = 1.  *)
(* |charge| = 12 makes |charge|/circumference = 1 and |charge|/(2*pi) = 2, *)
(* beta*c = 2 makes 0.5*beta*c = 1, and p0 = 1.  All quantities are        *)
(* integers; divisions are the code's divisions in these units.            *)
(***************************************************************************)
EXTENDS Integers, Sequences, FiniteSets, TLC

VARIABLES
    eta0,            \* alpha0 - gamma**-2, fixed at construction
    p_increment,     \* self.p_increment
    h,               \* self.h, the harmonic list
    V,               \* self.V, the voltage list
    dphi,            \* self.dphi, the phase offsets
    interval,        \* self.interval, set once by __init__
    _add_forces,     \* self._add_forces
    _add_potentials, \* self._add_potentials
    _z_sfp,          \* attribute _z_sfp: <<>> when absent, <<value>> when set
    _z_ufp,          \* attribute _z_ufp
    _zleft,          \* attribute _zleft
    _zright,         \* attribute _zright
    before,          \* history: the boundary attributes as they were when
                     \* add_fields or a method wrapped by attach_clean_buckets
                     \* was last called (what the caller had read)
    ret              \* the last call and what it returned or raised

config == <<eta0, p_increment, h, V, dphi, interval>>
fields == <<_add_forces, _add_potentials>>
attrs  == <<_z_sfp, _z_ufp, _zleft, _zright>>
vars   == <<config, fields, attrs, before, ret>>

----------------------------------------------------------------------------
\* Bounds of the model.

\* Registered perturbations (forces plus potentials) at most.
MaxFields == 2

----------------------------------------------------------------------------
\* Units and program constants.

pi == 3
\* Angle units per radian.
AngleUnits == 2
circumference == 12
charge == 12
beta == 1
c == 2
p0 == 1
\* The default of zero_crossings' subintervals (1000), scaled to the grid.
Subintervals == 8

Eta0Values == {-1, 1}
PIncrements == {-6, 0, 18}
Voltages == {0, 1}
Harmonics == {1, 2}
PhaseOffsets == {0, 6}

\* Perturbation functions of z: a constant a, or the line a*z.
Const(a) == [kind |-> "const", a |-> a]
Linear(a) == [kind |-> "linear", a |-> a]
Forces == {Linear(-2)}
Potentials == {Const(3), Linear(1)}
Apply(f, z) == IF f.kind = "const" THEN f.a ELSE f.a * z

\* The functions handed to zero_crossings directly: their values at the
\* samples repeat a pattern of PatternLen values.
PatternLen == 4
SampleValues == {-2, 0, 1}

\* Arguments of the queries: positions z, momenta dp, margins.
ZArgs == {-6, 0, 4, 6}
DpArgs == {0, 2}
MarginArgs == {0, 1}
\* The one position of the queries that only probe for the error.
ZProbe == {0}

----------------------------------------------------------------------------
\* numpy helpers.

Abs(x) == IF x < 0 THEN -x ELSE x
Sign(x) == IF x > 0 THEN 1 ELSE IF x < 0 THEN -1 ELSE 0

SinTable == <<0, 2, 3, 4, 3, 2, 0, -2, -3, -4, -3, -2>>
CosTable == <<4, 3, 2, 0, -2, -3, -4, -3, -2, 0, 2, 3>>
sin(phi) == SinTable[(phi % Len(SinTable)) + 1]
cos(phi) == CosTable[(phi % Len(CosTable)) + 1]

\* The integer part of the square root.
sqrt(n) == CHOOSE k \in 0..n : k * k <= n /\ n < (k + 1) * (k + 1)

RECURSIVE SumSeq(_)
SumSeq(s) == IF s = <<>> THEN 0 ELSE Head(s) + SumSeq(Tail(s))

RECURSIVE MinSeq(_)
MinSeq(s) ==
    IF Len(s) = 1 THEN s[1]
    ELSE LET m == MinSeq(Tail(s)) IN IF s[1] <= m THEN s[1] ELSE m

RECURSIVE MaxSeq(_)
MaxSeq(s) ==
    IF Len(s) = 1 THEN s[1]
    ELSE LET m == MaxSeq(Tail(s)) IN IF s[1] >= m THEN s[1] ELSE m

\* np.argmin / np.argmax: the first index of the extremum.
argmin(s) == CHOOSE i \in DOMAIN s :
    /\ \A j \in DOMAIN s : s[i] <= s[j]
    /\ \A j \in 1..(i - 1) : s[j] > s[i]
argmax(s) == CHOOSE i \in DOMAIN s :
    /\ \A j \in DOMAIN s : s[i] >= s[j]
    /\ \A j \in 1..(i - 1) : s[j] < s[i]

\* np.linspace(lo, hi, num): num points, both ends included.
linspace(lo, hi, num) ==
    [k \in 1..num |-> lo + ((k - 1) * (hi - lo)) \div (num - 1)]

\* z0[::2] and z0[1::2] (Python indices from 0), under the names
\* _get_zsfp_and_zufp gives them.
z0odd(z0) == [k \in 1..((Len(z0) + 1) \div 2) |-> z0[2 * k - 1]]
z0even(z0) == [k \in 1..(Len(z0) \div 2) |-> z0[2 * k]]

----------------------------------------------------------------------------
\* Properties of the configuration.

R == circumference \div (2 * pi)
deltaE == p_increment * beta * c

\* __init__: the search interval around z_offset (None: from the phase of
\* the fundamental harmonic, shifted by pi below transition).  The margin
\* 0.01*zmax is one grid cell.
InitInterval(e, hl, dl) ==
    LET i_fund == argmin(hl)
        phi_offset == IF e < 0 THEN dl[i_fund] - pi * AngleUnits
                      ELSE dl[i_fund]
        z_offset == (-phi_offset * R) \div (AngleUnits * hl[i_fund])
        zmax == circumference \div (2 * MinSeq(hl))
    IN  <<z_offset - (zmax + 1), z_offset + (zmax + 1)>>

----------------------------------------------------------------------------
\* Force fields and potentials.

make_singleharmonic_force(Vi, hi, dphii, z) ==
    (Abs(charge) * Vi * sin((AngleUnits * hi * z) \div R + dphii)) \div circumference

total_force(z, ignore_add_forces) ==
    SumSeq([i \in DOMAIN V |-> make_singleharmonic_force(V[i], h[i], dphi[i], z)])
    + SumSeq([i \in DOMAIN _add_forces |->
                 IF ignore_add_forces THEN 0 ELSE Apply(_add_forces[i], z)])

acc_force(z) == total_force(z, FALSE) - deltaE \div circumference

make_singleharmonic_potential(Vi, hi, dphii, z) ==
    (Abs(charge) * Vi * cos((AngleUnits * hi * z) \div R + dphii))
    \div (2 * pi * hi)

total_potential(z, ignore_add_potentials) ==
    SumSeq([i \in DOMAIN V |->
               make_singleharmonic_potential(V[i], h[i], dphi[i], z)])
    + SumSeq([i \in DOMAIN _add_potentials |->
                 IF ignore_add_potentials THEN 0
                 ELSE Apply(_add_potentials[i], z)])

\* v_acc without the offset that relocates the zero of the potential to
\* z_boundary.
v_acc_uncalibrated(z, z_boundary, ignore_add_potentials, make_convex) ==
    (total_potential(z, ignore_add_potentials)
     + (deltaE \div circumference) * (z - z_boundary))
    * (IF make_convex THEN Sign(eta0) ELSE 1)

\* v_acc with the offset taken from the RF potential alone.
v_acc_rf_offset(z, z_boundary, ignore_add_potentials, make_convex) ==
    (total_potential(z, ignore_add_potentials)
     - total_potential(z_boundary, TRUE)
     + (deltaE \div circumference) * (z - z_boundary))
    * (IF make_convex THEN Sign(eta0) ELSE 1)

\* acc_potential once z_ufp_separatrix has been read as z_boundary.
v_acc(z, z_boundary, ignore_add_potentials, make_convex) ==
    (total_potential(z, ignore_add_potentials)
     - total_potential(z_boundary, ignore_add_potentials)
     + (deltaE \div circumference) * (z - z_boundary))
    * (IF make_convex THEN Sign(eta0) ELSE 1)

----------------------------------------------------------------------------
\* Sequencing.  Let(v, F) is F applied to the value of v, evaluated once.
\* Then(r, F) continues with F after a call that returned r, and lets the
\* exception of a call that raised pass through.

Let(v, F(_)) == CHOOSE y \in {F(x) : x \in {v}} : TRUE

Absent == <<>>
Attrs == [sfp |-> _z_sfp, ufp |-> _z_ufp, zleft |-> _zleft, zright |-> _zright]
NoAttrs == [sfp |-> Absent, ufp |-> Absent, zleft |-> Absent, zright |-> Absent]
Return(a, v) == [a |-> a, err |-> FALSE, val |-> v]
Raise(a) == [a |-> a, err |-> TRUE, val |-> 0]
Then(r, F(_)) == Let(r, LAMBDA u : IF u.err THEN u ELSE F(u))

----------------------------------------------------------------------------
\* Root finding.

\* scipy's brentq on a bracket of adjacent samples: a root between them,
\* which on the grid is the point between the two samples.
brentq(a, b) == (a + b) \div 2

\* The j-th smallest element of a set of numbers.
Nth(S, j) == CHOOSE i \in S : Cardinality({k \in S : k <= i}) = j

\* The positions of the search interval, on which a function of z that is
\* handed to zero_crossings is tabulated.
Positions == interval[1]..interval[2]

\* The grid x that zero_crossings takes when it is given none.
x_None == linspace(interval[1], interval[2], Subintervals)

\* zero_crossings taking every change of sign between adjacent samples,
\* to or from zero included, for a root.
zero_crossings_touching(f) ==
    Let(x_None, LAMBDA x :
    Let([i \in DOMAIN x |-> Sign(f[x[i]])], LAMBDA sy :
    Let({i \in 1..(Len(x) - 1) : Abs(sy[i + 1] - sy[i]) >= 1}, LAMBDA zix :
        [j \in 1..Cardinality(zix) |->
            Let(Nth(zix, j), LAMBDA i : brentq(x[i], x[i + 1]))])))

\* zero_crossings(f) with x = None: the roots of f between adjacent samples
\* whose signs differ by 2, in the order of the samples.
zero_crossings(f) ==
    Let(x_None, LAMBDA x :
    Let([i \in DOMAIN x |-> Sign(f[x[i]])], LAMBDA sy :
    Let({i \in 1..(Len(x) - 1) : Abs(sy[i + 1] - sy[i]) = 2}, LAMBDA zix :
        [j \in 1..Cardinality(zix) |->
            Let(Nth(zix, j), LAMBDA i : brentq(x[i], x[i + 1]))])))

\* _get_zsfp_and_zufp masking the absence of a root by the left end of the
\* search interval instead of raising.
_get_zsfp_and_zufp_masking ==
    Let(zero_crossings([z \in Positions |-> acc_force(z)]), LAMBDA z0 :
        IF Len(z0) = 0
        THEN [err |-> FALSE, sfp |-> <<interval[1]>>, ufp |-> <<interval[1]>>]
        ELSE IF Len(z0) = 1 THEN [err |-> FALSE, sfp |-> z0, ufp |-> z0]
        ELSE IF eta0 * p_increment > 0
             THEN [err |-> FALSE, sfp |-> z0odd(z0), ufp |-> z0even(z0)]
             ELSE [err |-> FALSE, sfp |-> z0even(z0), ufp |-> z0odd(z0)])

\* _get_zsfp_and_zufp taking a single root for no bucket and raising.
_get_zsfp_and_zufp_single_raises ==
    Let(zero_crossings([z \in Positions |-> acc_force(z)]), LAMBDA z0 :
        IF Len(z0) <= 1 THEN [err |-> TRUE, sfp |-> <<>>, ufp |-> <<>>]
        ELSE IF eta0 * p_increment > 0
             THEN [err |-> FALSE, sfp |-> z0odd(z0), ufp |-> z0even(z0)]
             ELSE [err |-> FALSE, sfp |-> z0even(z0), ufp |-> z0odd(z0)])

\* _get_zsfp_and_zufp: err when there is no root (the ValueError).
_get_zsfp_and_zufp ==
    Let(zero_crossings([z \in Positions |-> acc_force(z)]), LAMBDA z0 :
        IF Len(z0) = 0 THEN [err |-> TRUE, sfp |-> <<>>, ufp |-> <<>>]
        ELSE IF Len(z0) = 1 THEN [err |-> FALSE, sfp |-> z0, ufp |-> z0]
        ELSE IF eta0 * p_increment > 0
             THEN [err |-> FALSE, sfp |-> z0odd(z0), ufp |-> z0even(z0)]
             ELSE [err |-> FALSE, sfp |-> z0even(z0), ufp |-> z0odd(z0)])

----------------------------------------------------------------------------
\* The cached attributes and the properties that read them.  A getter takes
\* the attributes a as they are when it is called and gives back the
\* attributes as it leaves them, whether it raised, and its value.

z_ufp(a) ==
    IF a.ufp # Absent THEN Return(a, a.ufp[1])
    ELSE Let(_get_zsfp_and_zufp, LAMBDA r :
             IF r.err THEN Raise(a)
             ELSE Return([a EXCEPT !.sfp = <<r.sfp>>, !.ufp = <<r.ufp>>],
                         r.ufp))

\* z_sfp without its cache: computed on every read.
z_sfp_uncached(a) ==
    Let(_get_zsfp_and_zufp, LAMBDA r :
        IF r.err THEN Raise(a)
        ELSE Return([a EXCEPT !.sfp = <<r.sfp>>, !.ufp = <<r.ufp>>], r.sfp))

z_sfp(a) ==
    IF a.sfp # Absent THEN Return(a, a.sfp[1])
    ELSE Let(_get_zsfp_and_zufp, LAMBDA r :
             IF r.err THEN Raise(a)
             ELSE Return([a EXCEPT !.sfp = <<r.sfp>>, !.ufp = <<r.ufp>>],
                         r.sfp))

z_ufp_separatrix(a) ==
    Then(z_ufp(a), LAMBDA u :
        Return(u.a, IF eta0 * p_increment > 0
                    THEN u.val[Len(u.val)] ELSE u.val[1]))

acc_potential(a, z, ignore_add_potentials, make_convex) ==
    Then(z_ufp_separatrix(a), LAMBDA b :
        Return(b.a, v_acc(z, b.val, ignore_add_potentials, make_convex)))

hamiltonian(a, z, dp, make_convex) ==
    Then(acc_potential(a, z, FALSE, FALSE), LAMBDA u :
        Return(u.a, ((-(eta0 * beta * c * dp * dp)) \div 2 + u.val \div p0)
                    * (IF make_convex THEN Sign(eta0) ELSE 1)))

\* hamiltonian(z, 0, make_convex) on an array z of positions.
hamiltonian_array(a, zs, make_convex) ==
    Then(z_ufp_separatrix(a), LAMBDA b :
        Return(b.a, [i \in DOMAIN zs |->
                        hamiltonian(b.a, zs[i], 0, make_convex).val]))

z_sfp_extr(a) ==
    Then(z_sfp(a), LAMBDA s :
    Then(hamiltonian_array(s.a, s.val, TRUE), LAMBDA hs :
        Return(hs.a, s.val[argmax(hs.val)])))

\* _get_bucket_boundaries appending the stable fixed points to the roots
\* of acc_potential instead of the unstable ones.
_get_bucket_boundaries_sfp(a) ==
    Then(z_ufp_separatrix(a), LAMBDA b :
    Let(zero_crossings([z \in Positions |->
                            v_acc(z, b.val, FALSE, FALSE)])
            \o z_sfp(b.a).val, LAMBDA z0 :
        Return(b.a, <<MinSeq(z0), MaxSeq(z0), z0>>)))

_get_bucket_boundaries(a) ==
    Then(z_ufp_separatrix(a), LAMBDA b :
    Let(zero_crossings([z \in Positions |->
                            v_acc(z, b.val, FALSE, FALSE)])
            \o z_ufp(b.a).val, LAMBDA z0 :
        Return(b.a, <<MinSeq(z0), MaxSeq(z0), z0>>)))

zleft(a) ==
    IF a.zleft # Absent THEN Return(a, a.zleft[1])
    ELSE Then(_get_bucket_boundaries(a), LAMBDA r :
             Return([r.a EXCEPT !.zleft = <<r.val[1]>>,
                                !.zright = <<r.val[2]>>], r.val[1]))

zright(a) ==
    IF a.zright # Absent THEN Return(a, a.zright[1])
    ELSE Then(_get_bucket_boundaries(a), LAMBDA r :
             Return([r.a EXCEPT !.zleft = <<r.val[1]>>,
                                !.zright = <<r.val[2]>>], r.val[2]))

----------------------------------------------------------------------------
\* Hamiltonians, separatrices and acceptance.

\* dp_at(z) of the function that equihamiltonian(zcut) returns.
equihamiltonian(a, zcut, z) ==
    Then(hamiltonian(a, zcut, 0, FALSE), LAMBDA hcut :
    Then(acc_potential(hcut.a, z, FALSE, FALSE), LAMBDA u :
    Let(Abs((2 * (-hcut.val - u.val \div p0) * Sign(eta0))
            \div (Abs(eta0) * beta * c)), LAMBDA r :
        Return(u.a, sqrt(IF r < 0 THEN 0 ELSE r)))))

separatrix(a, z) ==
    Then(z_ufp_separatrix(a), LAMBDA b : equihamiltonian(b.a, b.val, z))

h_sfp(a, make_convex) ==
    Then(z_sfp_extr(a), LAMBDA s : hamiltonian(s.a, s.val, 0, make_convex))

\* is_in_separatrix with the boundaries zleft and zright included.
is_in_separatrix_closed(a, z, dp, margin) ==
    Then(zleft(a), LAMBDA l :
    Then(zright(l.a), LAMBDA r :
    Then(hamiltonian(r.a, z, dp, TRUE), LAMBDA hv :
    Then(h_sfp(hv.a, TRUE), LAMBDA hs :
        Return(hs.a, (l.val <= z /\ z <= r.val)
                     /\ hv.val > margin * hs.val)))))

is_in_separatrix(a, z, dp, margin) ==
    Then(zleft(a), LAMBDA l :
    Then(zright(l.a), LAMBDA r :
    Then(hamiltonian(r.a, z, dp, TRUE), LAMBDA hv :
    Then(h_sfp(hv.a, TRUE), LAMBDA hs :
        Return(hs.a, (l.val < z /\ z < r.val)
                     /\ hv.val > margin * hs.val)))))

\* is_accepted(z, dp) of make_is_accepted(margin): the partial application.
make_is_accepted(a, margin, z, dp) == is_in_separatrix(a, z, dp, margin)

\* bucket_area: dblquad of 1 over zleft <= x <= zright, 0 <= y <=
\* separatrix(x), as the sum over the grid cells.
bucket_area(a) ==
    Then(zleft(a), LAMBDA l :
    Then(zright(l.a), LAMBDA r :
        Return(r.a, (SumSeq([k \in 1..(r.val - l.val) |->
                                separatrix(r.a, l.val + k - 1).val])
                     * 2 * p0) \div Abs(charge))))

\* add_fields with its four delattr calls in one try block, the boundaries
\* first: nothing is deleted when the boundaries are absent.
add_fields_delattr_one_try(a) == IF a.zleft = Absent THEN a ELSE NoAttrs

\* add_fields' two try blocks: delattr raises on the first absent
\* attribute and skips the rest of its block.
add_fields_delattr(a) ==
    [sfp |-> IF a.ufp = Absent THEN a.sfp ELSE Absent,
     ufp |-> Absent,
     zleft |-> Absent,
     zright |-> IF a.zleft = Absent THEN a.zright ELSE Absent]

----------------------------------------------------------------------------
\* The state after construction.

\* The RF systems a bucket is built for: one harmonic, with and without
\* voltage, and a double harmonic that the fundamental dominates.
RFSettings ==
    {[h |-> <<1>>, V |-> <<v>>, dphi |-> <<0>>] : v \in Voltages}
    \cup {[h |-> <<1, 2>>, V |-> <<3, 1>>, dphi |-> <<0, 0>>]}

InitWith(rf) ==
    /\ eta0 \in Eta0Values
    /\ p_increment \in PIncrements
    /\ h = rf.h
    /\ V = rf.V
    /\ dphi = rf.dphi
    /\ interval = InitInterval(eta0, rf.h, rf.dphi)
    /\ _add_forces = <<>>
    /\ _add_potentials = <<>>
    /\ _z_sfp = Absent
    /\ _z_ufp = Absent
    /\ _zleft = Absent
    /\ _zright = Absent
    /\ before = [zleft |-> Absent, zright |-> Absent]
    /\ ret = [op |-> "__init__", args |-> <<>>, err |-> FALSE, val |-> <<>>]

Init == \E rf \in RFSettings : InitWith(rf)

\* A query: the attributes as the call leaves them and what it returned.
Query(op, args, res) ==
    \E r \in {res} :
    /\ _z_sfp' = r.a.sfp
    /\ _z_ufp' = r.a.ufp
    /\ _zleft' = r.a.zleft
    /\ _zright' = r.a.zright
    /\ ret' = [op |-> op, args |-> args, err |-> r.err,
               val |-> IF r.err THEN <<>> ELSE <<r.val>>]
    /\ UNCHANGED <<config, fields, before>>

Get_z_sfp == Query("z_sfp", <<>>, z_sfp(Attrs))
Get_z_ufp == Query("z_ufp", <<>>, z_ufp(Attrs))
Get_z_ufp_separatrix == Query("z_ufp_separatrix", <<>>, z_ufp_separatrix(Attrs))
Get_z_sfp_extr == Query("z_sfp_extr", <<>>, z_sfp_extr(Attrs))
Get_zleft == Query("zleft", <<>>, zleft(Attrs))
Get_zright == Query("zright", <<>>, zright(Attrs))

Call_acc_potential ==
    \E z \in ZArgs, cv \in BOOLEAN :
        Query("acc_potential", <<z, cv>>, acc_potential(Attrs, z, FALSE, cv))

Call_hamiltonian(ZS, DS) ==
    \E z \in ZS, dp \in DS, cv \in BOOLEAN :
        Query("hamiltonian", <<z, dp, cv>>, hamiltonian(Attrs, z, dp, cv))

Call_equihamiltonian ==
    \E zcut \in ZArgs, z \in ZArgs :
        Query("equihamiltonian", <<zcut, z>>, equihamiltonian(Attrs, zcut, z))

Call_separatrix(ZS) ==
    \E z \in ZS : Query("separatrix", <<z>>, separatrix(Attrs, z))

Call_is_in_separatrix(ZS, DS, MS) ==
    \E z \in ZS, dp \in DS, margin \in MS :
        Query("is_in_separatrix", <<z, dp, margin>>,
              is_in_separatrix(Attrs, z, dp, margin))

Call_make_is_accepted ==
    \E z \in ZArgs, dp \in DpArgs, margin \in MarginArgs :
        Query("is_accepted", <<z, dp, margin>>,
              make_is_accepted(Attrs, margin, z, dp))

Call_bucket_area == Query("bucket_area", <<>>, bucket_area(Attrs))

\* The iterables a caller passes to add_fields: none or one function each.
ForceArgs == {<<>>} \cup {<<f>> : f \in Forces}
PotentialArgs == {<<>>} \cup {<<f>> : f \in Potentials}

add_fields(add_forces, add_potentials) ==
    \E a \in {add_fields_delattr(Attrs)} :
    /\ Len(_add_forces) + Len(_add_potentials)
         + Len(add_forces) + Len(add_potentials) <= MaxFields
    /\ _add_forces' = _add_forces \o add_forces
    /\ _add_potentials' = _add_potentials \o add_potentials
    /\ _z_sfp' = a.sfp
    /\ _z_ufp' = a.ufp
    /\ _zleft' = a.zleft
    /\ _zright' = a.zright
    /\ before' = [zleft |-> _zleft, zright |-> _zright]
    /\ ret' = [op |-> "add_fields", args |-> <<add_forces, add_potentials>>,
               err |-> FALSE, val |-> <<>>]
    /\ UNCHANGED config

Call_add_fields ==
    \E af \in ForceArgs, ap \in PotentialArgs : add_fields(af, ap)

\* The bucket as the immutable-configuration object it is built as:
\* construction, the queries (those with arguments at one probe position)
\* and add_fields.
Next ==
    \/ Get_z_sfp
    \/ Get_z_ufp
    \/ Get_z_ufp_separatrix
    \/ Get_z_sfp_extr
    \/ Get_zleft
    \/ Get_zright
    \/ Call_hamiltonian(ZProbe, {0})
    \/ Call_separatrix(ZProbe)
    \/ Call_is_in_separatrix(ZProbe, {0}, {0})
    \/ Call_bucket_area
    \/ Call_add_fields

Spec == Init /\ [][Next]_vars

\* The same bucket queried for its potential and Hamiltonian.
NextHamiltonian ==
    \/ Get_z_sfp
    \/ Get_zleft
    \/ Call_acc_potential
    \/ Call_hamiltonian(ZArgs, DpArgs)
    \/ Call_equihamiltonian
    \/ Call_separatrix(ZArgs)
    \/ Call_add_fields

SpecHamiltonian == Init /\ [][NextHamiltonian]_vars

\* The same bucket queried for acceptance.
NextAcceptance ==
    \/ Get_z_sfp_extr
    \/ Get_zleft
    \/ Get_zright
    \/ Call_is_in_separatrix(ZArgs, DpArgs, MarginArgs)
    \/ Call_make_is_accepted
    \/ Call_add_fields

SpecAcceptance == Init /\ [][NextAcceptance]_vars

----------------------------------------------------------------------------
\* The bucket in the hands of an owner that assigns to its RF parameters.

\* An assignment to one of the attributes p_increment, h, V, dphi: the
\* attribute changes and nothing else of the object does.
SetAttr(op, arg) ==
    /\ ret' = [op |-> op, args |-> <<arg>>, err |-> FALSE, val |-> <<>>]
    /\ UNCHANGED <<eta0, interval, fields, attrs, before>>

Set_p_increment ==
    \E p \in PIncrements :
        /\ p_increment' = p
        /\ SetAttr("p_increment", p)
        /\ UNCHANGED <<h, V, dphi>>

Set_h ==
    \E hl \in [DOMAIN h -> Harmonics] :
        /\ h' = hl
        /\ SetAttr("h", hl)
        /\ UNCHANGED <<p_increment, V, dphi>>

Set_V ==
    \E Vl \in [DOMAIN V -> Voltages] :
        /\ V' = Vl
        /\ SetAttr("V", Vl)
        /\ UNCHANGED <<p_increment, h, dphi>>

Set_dphi ==
    \E dl \in [DOMAIN dphi -> PhaseOffsets] :
        /\ dphi' = dl
        /\ SetAttr("dphi", dl)
        /\ UNCHANGED <<p_increment, h, V>>

\* A bucket of one harmonic, its owner assigning to the RF parameters,
\* reading the cached quantities and calling add_fields with nothing to add.
InitRF == InitWith([h |-> <<1>>, V |-> <<1>>, dphi |-> <<0>>])

NextRF ==
    \/ Set_p_increment
    \/ Set_h
    \/ Set_V
    \/ Set_dphi
    \/ Get_z_sfp
    \/ Get_z_ufp
    \/ Get_zleft
    \/ Get_zright
    \/ add_fields(<<>>, <<>>)

SpecRF == InitRF /\ [][NextRF]_vars

----------------------------------------------------------------------------
\* attach_clean_buckets: an RF-parameter-changing method of the owner of the
\* bucket, wrapped.

\* What the wrapped methods return.
MethodResults == {0, 1}

\* The RF parameters a wrapped method assigns, and the values.
RFChanges ==
    {<<"p_increment", p>> : p \in PIncrements}
    \cup {<<"V", Vl>> : Vl \in [DOMAIN V -> Voltages]}

\* The wrapped method: it assigns the RF parameter.  st holds the RF
\* parameters and the cached attributes a of the bucket.
rf_parameter_changing_method(st, name, value) == [st EXCEPT ![name] = value]

\* The owner's clean_buckets: the invalidation hook, after which nothing
\* is cached.
clean_buckets(st) == [st EXCEPT !.a = NoAttrs]

\* cleaned_rf_parameter_changing_method without the call of clean_buckets.
cleaned_rf_parameter_changing_method_uncleaned(res) ==
    [calls |-> <<"rf_parameter_changing_method">>, val |-> res]

\* cleaned_rf_parameter_changing_method: the calls it makes, in their
\* order, and what it returns when the wrapped method returned res.
cleaned_rf_parameter_changing_method(res) ==
    [calls |-> <<"rf_parameter_changing_method", "clean_buckets">>,
     val |-> res]

\* The calls made one after the other.
RECURSIVE RunCalls(_, _, _, _)
RunCalls(calls, st, name, value) ==
    IF calls = <<>> THEN st
    ELSE RunCalls(Tail(calls),
                  IF Head(calls) = "clean_buckets" THEN clean_buckets(st)
                  ELSE rf_parameter_changing_method(st, name, value),
                  name, value)

Call_cleaned_rf_parameter_changing_method ==
    \E ch \in RFChanges, res \in MethodResults :
    \E w \in {cleaned_rf_parameter_changing_method(res)} :
    \E st \in {RunCalls(w.calls,
                         [p_increment |-> p_increment, V |-> V, a |-> Attrs],
                         ch[1], ch[2])} :
        /\ p_increment' = st.p_increment
        /\ V' = st.V
        /\ _z_sfp' = st.a.sfp
        /\ _z_ufp' = st.a.ufp
        /\ _zleft' = st.a.zleft
        /\ _zright' = st.a.zright
        /\ before' = [zleft |-> _zleft, zright |-> _zright]
        /\ ret' = [op |-> "cleaned_rf_parameter_changing_method",
                   args |-> <<ch[1], ch[2], res>>, err |-> FALSE,
                   val |-> <<w.val>>, calls |-> w.calls]
        /\ UNCHANGED <<eta0, h, dphi, interval, fields>>

\* A bucket of one harmonic whose owner changes the RF parameters through
\* wrapped methods only.
NextCleaned ==
    \/ Call_cleaned_rf_parameter_changing_method
    \/ Get_z_sfp
    \/ Get_z_ufp
    \/ Get_zleft
    \/ Get_zright

SpecCleaned == InitRF /\ [][NextCleaned]_vars

----------------------------------------------------------------------------
\* zero_crossings called with a function of the caller.

\* The function of z that takes the values of the pattern t at the samples,
\* one after the other and then again from the first, and keeps a sample's
\* value up to the next sample.
SampledFunction(t) ==
    Let(x_None, LAMBDA x :
        [z \in Positions |->
            t[((Cardinality({i \in DOMAIN x : x[i] <= z}) - 1) % Len(t)) + 1]])

Call_zero_crossings ==
    \E f \in {SampledFunction(t) : t \in [1..PatternLen -> SampleValues]} :
        /\ ret' = [op |-> "zero_crossings", args |-> <<f>>, err |-> FALSE,
                   val |-> <<zero_crossings(f)>>]
        /\ UNCHANGED <<config, fields, attrs, before>>

\* A bucket of one harmonic whose root finder is called on functions of
\* the caller and through z_sfp.
NextCrossings ==
    \/ Call_zero_crossings
    \/ Get_z_sfp

SpecCrossings == InitRF /\ [][NextCrossings]_vars

----------------------------------------------------------------------------
\* What the properties below are stated with.

\* The four cached quantities, by the name of the property that reads them.
Reads == {"z_sfp", "z_ufp", "zleft", "zright"}

\* The attribute names of the RF parameters.
RFParameters == {"p_increment", "h", "V", "dphi"}

\* The attribute behind a read.
Cached(op) ==
    CASE op = "z_sfp" -> _z_sfp
      [] op = "z_ufp" -> _z_ufp
      [] op = "zleft" -> _zleft
      [] op = "zright" -> _zright

\* A read computed from the current configuration and perturbations with
\* nothing cached.
Fresh(op) ==
    CASE op = "z_sfp" -> z_sfp(NoAttrs)
      [] op = "z_ufp" -> z_ufp(NoAttrs)
      [] op = "zleft" -> zleft(NoAttrs)
      [] op = "zright" -> zright(NoAttrs)

\* The call recorded in ret ended as the computation x did.
Matches(x) == ret.err = x.err /\ (~x.err => ret.val = <<x.val>>)

\* The roots of acc_force on the sampled search interval.
Roots == zero_crossings([z \in Positions |-> acc_force(z)])

----------------------------------------------------------------------------
\* C1: every call of add_fields appends what it is given and leaves none of
\* _z_sfp, _z_ufp, _zleft, _zright set, whatever was cached when it was
\* called; the read of z_sfp, z_ufp, zleft or zright that follows it ends as
\* the computation from nothing cached does, with the perturbations
\* registered so far.
C1_AddFieldsInvalidates ==
    [][/\ ret'.op = "add_fields" =>
            /\ Attrs' = NoAttrs
            /\ _add_forces' = _add_forces \o ret'.args[1]
            /\ _add_potentials' = _add_potentials \o ret'.args[2]
       /\ (ret.op = "add_fields" /\ ret'.op \in Reads) =>
            Matches(Fresh(ret.op))']_vars

\* C1 witness: zleft was cached when add_fields registered a force, and the
\* read after it gave another boundary.
C1_Witness ==
    /\ ret.op = "zleft"
    /\ ~ret.err
    /\ _add_forces # <<>>
    /\ before.zleft # Absent
    /\ before.zleft # ret.val
    /\ Matches(Fresh("zleft"))

----------------------------------------------------------------------------
\* C3: in every state whose fixed points can be found, with and without
\* make_convex, acc_potential at z_ufp_separatrix is 0 and so is
\* hamiltonian(z_ufp_separatrix, 0).
C3_CalibratedToZero ==
    \A cv \in BOOLEAN :
        Let(z_ufp_separatrix(Attrs), LAMBDA b :
            ~b.err =>
                /\ acc_potential(b.a, b.val, FALSE, cv) = Return(b.a, 0)
                /\ hamiltonian(b.a, b.val, 0, cv) = Return(b.a, 0))

\* C3 witness: below transition with a momentum increment and registered
\* potentials, hamiltonian was called at z_ufp_separatrix with dp = 0.
C3_Witness ==
    /\ ret.op = "hamiltonian"
    /\ ~ret.err
    /\ ret.args[1] = z_ufp_separatrix(Attrs).val
    /\ ret.args[2] = 0
    /\ ret.val = <<0>>
    /\ eta0 < 0
    /\ p_increment # 0
    /\ _add_potentials # <<>>
    /\ total_potential(ret.args[1], FALSE) # 0

----------------------------------------------------------------------------
\* C4: when acc_force has no sign flip on the samples, every query that
\* needs the fixed points raises, leaves nothing cached, and raises again
\* when it is repeated.
FixedPointQueries ==
    {"z_sfp", "z_ufp", "z_ufp_separatrix", "zleft", "zright", "hamiltonian",
     "separatrix", "is_in_separatrix", "bucket_area"}

C4_NoBucketRaises ==
    [][/\ (Roots = <<>> /\ ret'.op \in FixedPointQueries) =>
            (ret'.err /\ Attrs' = NoAttrs)
       /\ (ret.err /\ ret'.op = ret.op /\ ret'.args = ret.args) =>
            ret'.err]_vars

\* C4 witness: zero voltage and a momentum increment; bucket_area raised.
C4_Witness ==
    /\ ret.op = "bucket_area"
    /\ ret.err
    /\ V = <<0>>
    /\ p_increment # 0
    /\ _add_forces = <<>>
    /\ Roots = <<>>

----------------------------------------------------------------------------
\* C10: with exactly one root of acc_force no query raises; z_sfp and z_ufp
\* are both the one-element array of the root, z_ufp_separatrix and
\* z_sfp_extr are the root, and zleft <= root <= zright.
C10_SingleRoot ==
    (Len(Roots) = 1 /\ ret.op \notin {"__init__", "add_fields"}) =>
        /\ ~ret.err
        /\ ret.op \in {"z_sfp", "z_ufp"} => ret.val = <<Roots>>
        /\ ret.op \in {"z_ufp_separatrix", "z_sfp_extr"} =>
               ret.val = <<Roots[1]>>
        /\ ret.op = "zleft" => ret.val[1] <= Roots[1]
        /\ ret.op = "zright" => Roots[1] <= ret.val[1]
        /\ _z_sfp # Absent => (_z_sfp = <<Roots>> /\ _z_ufp = <<Roots>>)
        /\ _zleft # Absent =>
               (_zleft[1] <= Roots[1] /\ Roots[1] <= _zright[1])

\* C10 witness: one root with eta0 * p_increment > 0, zright read.
C10_Witness ==
    /\ Len(Roots) = 1
    /\ eta0 * p_increment > 0
    /\ ret.op = "zright"
    /\ ~ret.err
    /\ _z_ufp = <<Roots>>

----------------------------------------------------------------------------
\* C2 as claimed: the read of z_sfp, z_ufp, zleft or zright that follows an
\* assignment to p_increment, h, V or dphi ends as the computation from
\* the new parameters with nothing cached does.
C2_ReadAfterChangeIsRecomputed ==
    [][(ret.op \in RFParameters /\ ret'.op \in Reads) =>
           Matches(Fresh(ret.op))']_vars

\* C2 amended: an assignment to p_increment, h, V or dphi leaves the four
\* cached attributes as they are; the read that follows it returns the
\* cached value when there is one and leaves the attributes alone, and ends
\* as the computation from the new parameters does when nothing is cached.
C2_ReadAfterChangeIsCachedOrRecomputed ==
    [][/\ ret'.op \in RFParameters => UNCHANGED attrs
       /\ (ret.op \in RFParameters /\ ret'.op \in Reads) =>
            IF Cached(ret'.op) # Absent
            THEN /\ ~ret'.err
                 /\ ret'.val = Cached(ret'.op)
                 /\ UNCHANGED attrs
            ELSE Attrs = NoAttrs => Matches(Fresh(ret.op))']_vars

\* C2 witness: a read after an assignment returned the cached boundary,
\* which is not the boundary of the parameters as they are now.
C2_Witness ==
    /\ ret.op = "zleft"
    /\ ~ret.err
    /\ ~Matches(Fresh("zleft"))
    /\ ~Fresh("zleft").err

----------------------------------------------------------------------------
\* C5 as claimed: whenever the fixed points can be found,
\* is_in_separatrix(z_sfp_extr, 0, margin=0) is True.
C5_ExtremalStablePointAccepted ==
    Let(z_sfp_extr(Attrs), LAMBDA s :
        ~s.err => is_in_separatrix(s.a, s.val, 0, 0).val = TRUE)

----------------------------------------------------------------------------
\* C6: is_in_separatrix(z, dp, margin) returns True exactly when
\* zleft < z < zright and hamiltonian(z, dp, make_convex=True) >
\* margin * h_sfp(make_convex=True), so False for z <= zleft and for
\* z >= zright; is_accepted(z, dp) of make_is_accepted(margin) returns what
\* is_in_separatrix(z, dp, margin) does.
C6_Acceptance ==
    (ret.op \in {"is_in_separatrix", "is_accepted"} /\ ~ret.err) =>
        LET z == ret.args[1]
            dp == ret.args[2]
            margin == ret.args[3]
        IN  /\ ret.val[1] <=>
                  /\ zleft(Attrs).val < z
                  /\ z < zright(Attrs).val
                  /\ hamiltonian(Attrs, z, dp, TRUE).val
                        > margin * h_sfp(Attrs, TRUE).val
            /\ (z <= _zleft[1] \/ z >= _zright[1]) => ret.val = <<FALSE>>
            /\ ret.op = "is_accepted" =>
                  Matches(is_in_separatrix(Attrs, z, dp, margin))

\* C6 witness: a point off the z axis was accepted by is_accepted.
C6_Witness ==
    /\ ret.op = "is_accepted"
    /\ ret.val = <<TRUE>>
    /\ ret.args[2] # 0
    /\ _zleft[1] < ret.args[1]
    /\ ret.args[1] < _zright[1]

----------------------------------------------------------------------------
\* The arguments of an add_fields call that registers nonzero constant
\* potentials and no force.
ConstantPotentialOnly(args) ==
    /\ args[1] = <<>>
    /\ args[2] # <<>>
    /\ \A i \in DOMAIN args[2] :
           args[2][i].kind = "const" /\ args[2][i].a # 0

\* C7 as claimed: zleft and zright were read, add_fields registered a
\* nonzero constant potential and no force, and the next read of zleft or
\* zright gives boundaries other than the ones read before.
C7_ConstantPotentialMovesBoundaries ==
    [][(/\ ret.op = "add_fields"
        /\ ConstantPotentialOnly(ret.args)
        /\ before.zleft # Absent
        /\ ret'.op \in {"zleft", "zright"}) =>
           (~ret'.err /\ <<_zleft', _zright'>> # <<before.zleft, before.zright>>)]_vars

\* C7 amended: zleft and zright were read, add_fields registered a nonzero
\* constant potential and no force, and the next read of zleft or zright
\* finds no boundary cached, computes the boundaries anew, and they are the
\* ones read before.
C7_ConstantPotentialKeepsBoundaries ==
    [][(/\ ret.op = "add_fields"
        /\ ConstantPotentialOnly(ret.args)
        /\ before.zleft # Absent
        /\ ret'.op \in {"zleft", "zright"}) =>
           /\ _zleft = Absent /\ _zright = Absent
           /\ ~ret'.err
           /\ <<_zleft', _zright'>> = <<before.zleft, before.zright>>]_vars

\* C7 witness: the boundaries were read again after add_fields had
\* registered a constant potential on a bucket with a momentum increment.
C7_Witness ==
    /\ ret.op = "zright"
    /\ ~ret.err
    /\ before.zleft # Absent
    /\ _add_forces = <<>>
    /\ _add_potentials = <<Const(3)>>
    /\ p_increment # 0
    /\ <<_zleft, _zright>> = <<before.zleft, before.zright>>
    /\ _zleft # _zright

----------------------------------------------------------------------------
\* C8 as claimed: dp_at(z) of equihamiltonian(zcut) is the dp >= 0 with
\* hamiltonian(z, dp) = hamiltonian(zcut, 0) where there is one, so
\* dp_at(zcut) = 0, and 0 where there is none.
C8_EquihamiltonianSolves ==
    (ret.op = "equihamiltonian" /\ ~ret.err) =>
        LET zcut == ret.args[1]
            z == ret.args[2]
            hcut == hamiltonian(Attrs, zcut, 0, FALSE).val
            \* dp squared from -0.5*eta0*beta*c*dp**2 + U(z)/p0 = hcut
            dp2 == (2 * (acc_potential(Attrs, z, FALSE, FALSE).val \div p0
                         - hcut) * Sign(eta0))
                   \div (Abs(eta0) * beta * c)
        IN  /\ ret.val = <<IF dp2 >= 0 THEN sqrt(dp2) ELSE 0>>
            /\ z = zcut => ret.val = <<0>>

----------------------------------------------------------------------------
\* C9 as claimed: with two or more roots of acc_force, z_sfp and z_ufp are
\* the two subsequences of the roots at alternating positions, and
\* z_ufp_separatrix is the last of z_ufp and right of every stable fixed
\* point when eta0 * p_increment > 0, the first of z_ufp and left of every
\* stable fixed point otherwise.
C9_SeparatrixPointOutsideStablePoints ==
    (ret.op = "z_ufp_separatrix" /\ ~ret.err /\ Len(Roots) >= 2) =>
        LET sfp == _z_sfp[1]
            ufp == _z_ufp[1]
            zb == ret.val[1]
        IN  /\ {sfp, ufp} = {z0odd(Roots), z0even(Roots)}
            /\ IF eta0 * p_increment > 0
               THEN /\ zb = ufp[Len(ufp)]
                    /\ \A i \in DOMAIN sfp : sfp[i] < zb
               ELSE /\ zb = ufp[1]
                    /\ \A i \in DOMAIN sfp : zb < sfp[i]

----------------------------------------------------------------------------
\* The indices i at which the samples i and i + 1 of f have the signs +1
\* and -1, in either order.
FlipPairs(f) ==
    {i \in 1..(Len(x_None) - 1) :
        {Sign(f[x_None[i]]), Sign(f[x_None[i + 1]])} = {-1, 1}}

\* C11: zero_crossings returns one root for each pair of adjacent samples
\* with the signs +1 and -1, the root between the two samples of its pair,
\* the roots in increasing order; a pair with a sample that is exactly zero
\* gives no root.
C11_OneRootPerFlip ==
    ret.op = "zero_crossings" =>
        LET f == ret.args[1]
            roots == ret.val[1]
        IN  /\ Len(roots) = Cardinality(FlipPairs(f))
            /\ \A j \in DOMAIN roots :
                   /\ x_None[Nth(FlipPairs(f), j)] <= roots[j]
                   /\ roots[j] <= x_None[Nth(FlipPairs(f), j) + 1]
            /\ \A j, k \in DOMAIN roots : j < k => roots[j] < roots[k]

\* C11 witness: f has two sign flips and a sample that is exactly zero next
\* to a nonzero one; zero_crossings returned the roots of the flips alone.
C11_Witness ==
    /\ ret.op = "zero_crossings"
    /\ Len(ret.val[1]) >= 2
    /\ \E i \in 1..(Len(x_None) - 1) :
           /\ ret.args[1][x_None[i]] = 0
           /\ ret.args[1][x_None[i + 1]] # 0
    /\ Len(ret.val[1]) = Cardinality(FlipPairs(ret.args[1]))

----------------------------------------------------------------------------
\* C12 as claimed: without a grid of the caller zero_crossings samples f at
\* subintervals + 1 evenly spaced points from one end of the search
\* interval to the other, which divide it into subintervals equal parts.
C12_SubintervalsPlusOneSamples ==
    ret.op = "zero_crossings" =>
        /\ Len(x_None) = Subintervals + 1
        /\ x_None[1] = interval[1]
        /\ x_None[Len(x_None)] = interval[2]
        /\ \A i \in 1..(Len(x_None) - 1) :
               (x_None[i + 1] - x_None[i]) * Subintervals
                   = interval[2] - interval[1]

----------------------------------------------------------------------------
\* C15 as claimed: whenever f has opposite nonzero signs at two samples
\* i < j, zero_crossings returns a root between x[i] and x[j], also when f
\* is exactly zero at a sample between them.
C15_RootBetweenOppositeSigns ==
    ret.op = "zero_crossings" =>
        LET f == ret.args[1]
            roots == ret.val[1]
        IN  \A i, j \in DOMAIN x_None :
                (i < j /\ Sign(f[x_None[i]]) * Sign(f[x_None[j]]) = -1) =>
                    \E k \in DOMAIN roots :
                        x_None[i] <= roots[k] /\ roots[k] <= x_None[j]

----------------------------------------------------------------------------
\* C13: cached boundaries are the minimum and the maximum of the roots of
\* acc_potential together with the unstable fixed points, so zleft <= zright
\* and every unstable fixed point, z_ufp_separatrix among them, lies from
\* zleft to zright.
C13_BoundariesAreExtremes ==
    _zleft # Absent =>
        /\ _zright # Absent
        /\ _z_ufp # Absent
        /\ Let(zero_crossings([z \in Positions |->
                   acc_potential(Attrs, z, FALSE, FALSE).val]) \o _z_ufp[1],
               LAMBDA z0 : /\ _zleft[1] = MinSeq(z0)
                           /\ _zright[1] = MaxSeq(z0))
        /\ _zleft[1] <= _zright[1]
        /\ \A i \in DOMAIN _z_ufp[1] :
               _zleft[1] <= _z_ufp[1][i] /\ _z_ufp[1][i] <= _zright[1]
        /\ _zleft[1] <= z_ufp_separatrix(Attrs).val
        /\ z_ufp_separatrix(Attrs).val <= _zright[1]
        /\ ret.op = "zleft" => ret.val = _zleft
        /\ ret.op = "zright" => ret.val = _zright

\* C13 witness: with a registered potential, zleft was read and is a root
\* of acc_potential left of every unstable fixed point.
C13_Witness ==
    /\ ret.op = "zleft"
    /\ ~ret.err
    /\ _add_potentials # <<>>
    /\ \A i \in DOMAIN _z_ufp[1] : _zleft[1] < _z_ufp[1][i]
    /\ _zleft[1] < _zright[1]

----------------------------------------------------------------------------
====
